---- MODULE Spec2Model ----
\* A model of PeakBagger / ALPINE Explorer (src/peakbagger/main.py): the
\* discovery of geography directories, the search tree, the statistics table
\* with its prevalence and "1 in N" rate columns, and the consolidation of the
\* per-geography metadata tables.
EXTENDS Integers, Sequences, FiniteSets, TLC

\* ---------------------------------------------------------------------------
\* Natural numbers of any size, as little-endian sequences of limbs below
\* LimbBase with no leading zero limb (<<>> is 0).  They carry the 53-bit
\* significands of the Float64 columns polars computes.  An operator that
\* reads an argument more than once binds its value first (x \in {arg}).
\* ---------------------------------------------------------------------------

LimbBase == 2^15

RECURSIVE BigOf(_)
BigOf(n) == IF n = 0 THEN <<>> ELSE <<n % LimbBase>> \o BigOf(n \div LimbBase)

\* a without its leading zero limbs
BigTrim(a) ==
    CHOOSE r \in
        { LET nz == {i \in 1..Len(v) : v[i] # 0}
          IN  IF nz = {} THEN <<>>
              ELSE SubSeq(v, 1, CHOOSE i \in nz : \A j \in nz : j <= i)
          : v \in {a} } : TRUE

RECURSIVE BigCmpFrom(_, _, _)
BigCmpFrom(a, b, i) ==
    IF i = 0 THEN 0
    ELSE IF a[i] < b[i] THEN -1
    ELSE IF a[i] > b[i] THEN 1
    ELSE BigCmpFrom(a, b, i - 1)

\* -1, 0 or 1 as a < b, a = b, a > b
BigCmp(a, b) ==
    CHOOSE r \in
        { IF Len(v[1]) < Len(v[2]) THEN -1
          ELSE IF Len(v[1]) > Len(v[2]) THEN 1
          ELSE BigCmpFrom(v[1], v[2], Len(v[1]))
          : v \in {<<a, b>>} } : TRUE

RECURSIVE BigSubFrom(_, _, _, _)
BigSubFrom(a, b, i, borrow) ==
    IF i > Len(a) THEN <<>>
    ELSE LET d == a[i] - (IF i <= Len(b) THEN b[i] ELSE 0) - borrow
         IN  IF d < 0 THEN <<d + LimbBase>> \o BigSubFrom(a, b, i + 1, 1)
             ELSE <<d>> \o BigSubFrom(a, b, i + 1, 0)

\* a - b, for a >= b
BigSub(a, b) ==
    BigTrim(CHOOSE r \in { BigSubFrom(v[1], v[2], 1, 0) : v \in {<<a, b>>} } : TRUE)

RECURSIVE BigMulFrom(_, _, _, _)
BigMulFrom(a, k, i, carry) ==
    IF i > Len(a) THEN BigOf(carry)
    ELSE <<(a[i] * k + carry) % LimbBase>>
         \o BigMulFrom(a, k, i + 1, (a[i] * k + carry) \div LimbBase)

\* a * k, for 0 <= k < LimbBase
BigMulSmall(a, k) ==
    BigTrim(CHOOSE r \in { BigMulFrom(v, k, 1, 0) : v \in {a} } : TRUE)

BigDouble(a) == BigMulSmall(a, 2)

\* the number of bits of a limb v, 0 < v < LimbBase
LimbBits(v) == CHOOSE k \in 1..15 : 2^(k - 1) <= v /\ v < 2^k

\* the number of bits of a (0 for 0)
BigBitLen(a) ==
    CHOOSE r \in
        { IF v = <<>> THEN 0 ELSE 15 * (Len(v) - 1) + LimbBits(v[Len(v)])
          : v \in {a} } : TRUE

\* a * 2^n
BigShl(a, n) ==
    CHOOSE r \in
        { IF v = <<>> THEN <<>>
          ELSE BigMulSmall([i \in 1..(n \div 15) |-> 0] \o v, 2^(n % 15))
          : v \in {a} } : TRUE

\* floor(a / 2^n)
BigShr(a, n) ==
    BigTrim(CHOOSE r \in
        { IF n \div 15 >= Len(v) THEN <<>>
          ELSE [i \in 1..(Len(v) - (n \div 15)) |->
                 (v[i + (n \div 15)] \div 2^(n % 15))
                 + (IF i + (n \div 15) < Len(v)
                    THEN (v[i + (n \div 15) + 1] % 2^(n % 15)) * 2^(15 - (n % 15))
                    ELSE 0)]
          : v \in {a} } : TRUE)

\* floor(a / 2)
BigHalve(a) == BigShr(a, 1)

BigIsOdd(a) == CHOOSE r \in { v # <<>> /\ v[1] % 2 = 1 : v \in {a} } : TRUE

RECURSIVE BigAddFrom(_, _, _)
BigAddFrom(a, i, carry) ==
    IF carry = 0 THEN SubSeq(a, i, Len(a))
    ELSE IF i > Len(a) THEN <<carry>>
    ELSE <<(a[i] + carry) % LimbBase>>
         \o BigAddFrom(a, i + 1, (a[i] + carry) \div LimbBase)

\* a + 1
BigSucc(a) == CHOOSE r \in { BigAddFrom(v, 1, 1) : v \in {a} } : TRUE

RECURSIVE BigToIntFrom(_, _)
BigToIntFrom(a, i) ==
    IF i > Len(a) THEN 0 ELSE a[i] + LimbBase * BigToIntFrom(a, i + 1)

\* the value of a, for a below 2^30
BigToInt(a) == CHOOSE r \in { BigToIntFrom(v, 1) : v \in {a} } : TRUE

\* ---------------------------------------------------------------------------
\* Float64 (IEEE 754 binary64, round to nearest, ties to even), as far as the
\* non-negative values of the statistics table need it.  A value is one of
\*   FNull          polars null
\*   FNaN, FInf     NaN and +infinity
\*   FZero          +0.0
\*   [k |-> "fin", m |-> significand, e |-> exponent]   m * 2^e, with
\*                  2^52 <= m < 2^53
\* ---------------------------------------------------------------------------

MantBits == 53

FNull == [k |-> "null"]
FNaN  == [k |-> "nan"]
FInf  == [k |-> "inf"]
FZero == [k |-> "zero"]
Fin(m, e) == [k |-> "fin", m |-> m, e |-> e]

\* One step of binary long division on st = <<quotient, remainder, divisor>>:
\* the next quotient bit is appended and the divisor halved.
DivStep(st) ==
    IF BigCmp(st[2], st[3]) >= 0
    THEN <<BigSucc(BigDouble(st[1])), BigSub(st[2], st[3]), BigHalve(st[3])>>
    ELSE <<BigDouble(st[1]), st[2], BigHalve(st[3])>>

RECURSIVE DivLoop(_, _)
DivLoop(st, k) ==
    IF k = 0 THEN st
    ELSE CHOOSE r \in { DivLoop(n, k - 1) : n \in {DivStep(st)} } : TRUE

\* Round to nearest, ties to even: q and rem are the quotient and the
\* remainder of a division by D; the result is q or q + 1, times 2^s.
RoundQuot(q, rem, D, s) ==
    CHOOSE f \in
        { IF c < 0 \/ (c = 0 /\ ~BigIsOdd(q)) THEN Fin(q, s)
          ELSE IF BigBitLen(BigSucc(q)) > MantBits
               THEN Fin(BigHalve(BigSucc(q)), s + 1)
               ELSE Fin(BigSucc(q), s)
          : c \in {BigCmp(BigDouble(rem), D)} } : TRUE

\* The Float64 nearest to (N / D) * 2^s, for D * 2^(MantBits-1) <= N <
\* D * 2^MantBits: the quotient has exactly MantBits bits.
RoundScaled(N, D, s) ==
    CHOOSE f \in
        { RoundQuot(r[1], r[2], D, s)
          : r \in {DivLoop(<<<<>>, N, BigShl(D, MantBits - 1)>>, MantBits)} } : TRUE

\* N1 / D1 is within a factor of two of 2^(MantBits-1): one more shift of
\* N1 may be needed.
RoundAligned(N1, D1, s1) ==
    IF BigCmp(N1, BigShl(D1, MantBits - 1)) < 0
    THEN RoundScaled(BigDouble(N1), D1, s1 - 1)
    ELSE RoundScaled(N1, D1, s1)

\* The Float64 nearest to (N / D) * 2^s, for N > 0 and D > 0: N or D is
\* shifted left until D * 2^(MantBits-1) <= N < D * 2^MantBits.
RoundRat(N, D, s) ==
    CHOOSE f \in
        { RoundAligned(a[1], a[2], s - a[3])
          : a \in { LET sh == (MantBits - 1) - (BigBitLen(v[1]) - BigBitLen(v[2]))
                    IN  << IF sh >= 0 THEN BigShl(v[1], sh) ELSE v[1],
                           IF sh >= 0 THEN v[2] ELSE BigShl(v[2], -sh),
                           sh >>
                    : v \in {<<N, D>>} } } : TRUE

\* an Int64 value cast to Float64
FromInt(n) == IF n = 0 THEN FZero ELSE RoundRat(BigOf(n), <<1>>, 0)

\* x / y on Float64 values (null propagates)
FloatDivV(x, y) ==
    IF x.k = "null" \/ y.k = "null" THEN FNull
    ELSE IF x.k = "nan" \/ y.k = "nan" THEN FNaN
    ELSE IF x.k = "inf" THEN (IF y.k = "inf" THEN FNaN ELSE FInf)
    ELSE IF y.k = "inf" THEN FZero
    ELSE IF y.k = "zero" THEN (IF x.k = "zero" THEN FNaN ELSE FInf)
    ELSE IF x.k = "zero" THEN FZero
    ELSE RoundRat(x.m, y.m, x.e - y.e)

FloatDiv(x, y) == CHOOSE f \in { FloatDivV(v[1], v[2]) : v \in {<<x, y>>} } : TRUE

\* x * n on a Float64 value, n a positive integer literal below LimbBase
FloatMulInt(x, n) ==
    CHOOSE f \in
        { IF v.k = "fin" THEN RoundRat(BigMulSmall(v.m, n), <<1>>, v.e) ELSE v
          : v \in {x} } : TRUE

\* Expr.floor()
FloatFloor(x) ==
    CHOOSE f \in
        { IF v.k # "fin" \/ v.e >= 0 THEN v
          ELSE IF -v.e >= MantBits THEN FZero
          ELSE RoundRat(BigShr(v.m, -v.e), <<1>>, 0)
          : v \in {x} } : TRUE

\* the integer a Float64 holds, for an integral value below 2^30
FloatToInt(x) ==
    IF x.k = "zero" THEN 0
    ELSE IF x.e >= 0 THEN BigToInt(BigShl(x.m, x.e))
    ELSE BigToInt(BigShr(x.m, -x.e))

\* Expr.cast(pl.Utf8) of a Float64 that holds an integral value: polars
\* writes the fractional part, "200.0", and "inf" and "NaN".  None is <<>>.
FloatToUtf8(x) ==
    CHOOSE f \in
        { CASE v.k = "null" -> <<>>
            [] v.k = "nan"  -> <<"NaN">>
            [] v.k = "inf"  -> <<"inf">>
            [] OTHER        -> <<ToString(FloatToInt(v)) \o ".0">>
          : v \in {x} } : TRUE

\* ---------------------------------------------------------------------------
\* Strings that the program takes apart are sequences of characters.
\* ---------------------------------------------------------------------------

PfxLocalDataset == <<"L", "o", "c", "a", "l", "D", "a", "t", "a", "s", "e", "t", "_">>
PfxGISAID       == <<"G", "I", "S", "A", "I", "D", "_">>
PfxGenBank      == <<"G", "e", "n", "B", "a", "n", "k", "_">>

RECURSIVE Concat(_, _)
\* the sequences pieces[i], pieces[i + 1], ... one behind the other
Concat(pieces, i) == IF i > Len(pieces) THEN <<>> ELSE pieces[i] \o Concat(pieces, i + 1)

\* old occurs in s at position i
OccursAt(s, old, i) ==
    /\ i + Len(old) - 1 <= Len(s)
    /\ \A j \in 1..Len(old) : s[i + j - 1] = old[j]

\* str.replace(old, new) from position i on: the leftmost occurrence is
\* replaced and the scan goes on behind it, so occurrences never overlap.
RECURSIVE ReplaceFrom(_, _, _, _)
ReplaceFrom(s, old, new, i) ==
    IF i > Len(s) THEN <<>>
    ELSE IF OccursAt(s, old, i) THEN new \o ReplaceFrom(s, old, new, i + Len(old))
    ELSE <<s[i]>> \o ReplaceFrom(s, old, new, i + 1)

\* str.replace(old, new), old not empty
Replace(s, old, new) ==
    CHOOSE r \in { ReplaceFrom(v, old, new, 1) : v \in {s} } : TRUE

_clean_string(subdir_name) ==
    Replace(Replace(Replace(Replace(subdir_name,
        PfxLocalDataset, <<>>), PfxGISAID, <<>>), PfxGenBank, <<>>), <<"_">>, <<" ">>)

\* ---------------------------------------------------------------------------
\* Option and Result values.
\* ---------------------------------------------------------------------------

None == <<>>
Some(x) == <<x>>

Ok(v)    == [kind |-> "Ok", value |-> v]
Err(msg) == [kind |-> "Err", message |-> msg]
\* an exception that leaves the function instead of a Result
Raised(exc) == [kind |-> "Raised", exception |-> exc]

\* ---------------------------------------------------------------------------
\* The file system under the results root.  A root entry is
\*   [name, isdir, entries], its name a sequence of characters; an entry
\*   of a geography directory is [name |-> [stem, suffix], node]: its name
\*   is the characters of the stem followed by the suffix, and the node is
\*   a file holding a table, [type |-> "file", table], or a directory of
\*   tables by file name, [type |-> "dir", files].  A table is
\*   [header, rows].
\* ---------------------------------------------------------------------------

SfxDouble   == "double_candidates"
SfxAnachron == "metadata_candidates"
SfxHighdist == "high_distance_clusters"
SfxEarly    == "early_stats.tsv"
SfxLate     == "late_stats.tsv"

FileAnachron == "anachronistic_metadata_only_candidates.tsv"
FileHighdist == "high_distance_candidates.tsv"
FileDouble   == "double_candidate_metadata.tsv"

RECURSIVE SelectIndices(_, _)
\* the indices i..Len(keep) at which the sequence of booleans keep is TRUE
SelectIndices(keep, i) ==
    IF i > Len(keep) THEN <<>>
    ELSE (IF keep[i] THEN <<i>> ELSE <<>>) \o SelectIndices(keep, i + 1)

\* os.listdir(result_root) without the os.path.isdir filter
ListEntries(root) ==
    [k \in 1..Len(root.entries) |-> root.entries[k].name]

\* os.listdir(result_root) filtered by os.path.isdir
Subdirs(root) ==
    LET kept == SelectIndices([k \in 1..Len(root.entries) |-> root.entries[k].isdir], 1)
    IN  [k \in 1..Len(kept) |-> root.entries[kept[k]].name]

\* the root entry called name (names are unique in a directory)
RootEntry(root, name) ==
    CHOOSE e \in {root.entries[i] : i \in 1..Len(root.entries)} : e.name = name

\* The printable characters in the order of their codes, for the ranges of
\* a pattern (the backslash and the backquote, which no name of the model
\* holds, by words).
Alphabet ==
    << " ", "!", "\"", "#", "$", "%", "&", "'", "(", ")", "*", "+", ",", "-", ".", "/",
       "0", "1", "2", "3", "4", "5", "6", "7", "8", "9", ":", ";", "<", "=", ">", "?",
       "@", "A", "B", "C", "D", "E", "F", "G", "H", "I", "J", "K", "L", "M", "N", "O",
       "P", "Q", "R", "S", "T", "U", "V", "W", "X", "Y", "Z", "[", "backslash", "]", "^", "_",
       "backquote", "a", "b", "c", "d", "e", "f", "g", "h", "i", "j", "k", "l", "m", "n", "o",
       "p", "q", "r", "s", "t", "u", "v", "w", "x", "y", "z", "{", "|", "}", "~" >>

Ord(c) == CHOOSE k \in 1..Len(Alphabet) : Alphabet[k] = c

\* glob.has_magic: the name would be read as a pattern
HasMagic(name) == \E i \in 1..Len(name) : name[i] \in {"*", "?", "["}

\* glob._ishidden
IsHidden(name) == name # <<>> /\ name[1] = "."

\* fnmatch.translate at a "[" in place i of the pattern: the place of the
\* "]" that closes the class, 0 when none does and the "[" is literal.  A
\* "]" right behind the "[" or behind "[!" belongs to the class.
ClassEnd(pat, i) ==
    LET j1 == IF i + 1 <= Len(pat) /\ pat[i + 1] = "!" THEN i + 2 ELSE i + 1
        j2 == IF j1 <= Len(pat) /\ pat[j1] = "]" THEN j1 + 1 ELSE j1
        closing == {j \in j2..Len(pat) : pat[j] = "]"}
    IN  IF closing = {} THEN 0
        ELSE CHOOSE j \in closing : \A l \in closing : j <= l

RECURSIVE ClassChunksFrom(_, _, _)
\* fnmatch.translate on the text of a class: the chunks the text falls into
\* at its hyphens, the chunk in hand beginning at place i and the next
\* hyphen looked for from place k on.  The hyphen behind a chunk is looked
\* for from the third place behind the last one, and a hyphen that ends
\* the text stays with the last chunk.
ClassChunksFrom(stuff, i, k) ==
    LET hyphens == {p \in k..Len(stuff) : stuff[p] = "-"}
        p == CHOOSE q \in hyphens : \A r \in hyphens : q <= r
    IN  IF hyphens = {} THEN <<SubSeq(stuff, i, Len(stuff))>>
        ELSE IF p = Len(stuff) THEN <<SubSeq(stuff, i, p)>>
        ELSE <<SubSeq(stuff, i, p - 1)>> \o ClassChunksFrom(stuff, p + 1, p + 3)

RECURSIVE RemoveEmptyFrom(_, _)
\* the loop that removes the empty ranges, from the last pair of chunks
\* down to the pair of chunks k - 1 and k: a range whose first character
\* is behind its last goes, with both characters, and the two chunks
\* become one
RemoveEmptyFrom(chunks, k) ==
    IF k < 2 THEN chunks
    ELSE IF Ord(chunks[k - 1][Len(chunks[k - 1])]) > Ord(chunks[k][1])
    THEN RemoveEmptyFrom(
             [l \in 1..(Len(chunks) - 1) |->
                 IF l < k - 1 THEN chunks[l]
                 ELSE IF l = k - 1
                 THEN SubSeq(chunks[k - 1], 1, Len(chunks[k - 1]) - 1) \o Tail(chunks[k])
                 ELSE chunks[l + 1]],
             k - 1)
    ELSE RemoveEmptyFrom(chunks, k - 1)

\* the character is in the class "[" chunk - chunk - ... "]" of the regular
\* expression: it is a character of a chunk, or in the range from the last
\* character of a chunk to the first of the next (a hyphen with nothing
\* before it is the hyphen itself)
InChunks(chunks, c) ==
    \/ \E l \in 1..Len(chunks) : \E p \in 1..Len(chunks[l]) : chunks[l][p] = c
    \/ \E l \in 1..(Len(chunks) - 1) :
          IF chunks[l] = <<>> \/ chunks[l + 1] = <<>> THEN c = "-"
          ELSE /\ Ord(chunks[l][Len(chunks[l])]) <= Ord(c)
               /\ Ord(c) <= Ord(chunks[l + 1][1])

\* [seq] and [!seq]: the text of the class is cut into chunks and freed of
\* its empty ranges first; what is left is the class that matches nothing
\* when empty, every character when it is "!", the characters not listed
\* behind a leading "!", and the characters listed otherwise
InClass(stuff, c) ==
    LET cut    == ClassChunksFrom(stuff, 1, IF stuff[1] = "!" THEN 3 ELSE 2)
        chunks == RemoveEmptyFrom(cut, Len(cut))
    IN  IF chunks = <<<<>>>> THEN FALSE
        ELSE IF chunks = <<<<"!">>>> THEN TRUE
        ELSE IF chunks[1][1] = "!"
        THEN ~InChunks(<<Tail(chunks[1])>> \o Tail(chunks), c)
        ELSE InChunks(chunks, c)

RECURSIVE FnMatchFrom(_, _, _, _)
\* fnmatch.fnmatchcase of name from place j on with pat from place i on
FnMatchFrom(pat, i, name, j) ==
    IF i > Len(pat) THEN j > Len(name)
    ELSE IF pat[i] = "*"
    THEN \/ FnMatchFrom(pat, i + 1, name, j)
         \/ j <= Len(name) /\ FnMatchFrom(pat, i, name, j + 1)
    ELSE IF pat[i] = "?"
    THEN j <= Len(name) /\ FnMatchFrom(pat, i + 1, name, j + 1)
    ELSE IF pat[i] = "[" /\ ClassEnd(pat, i) # 0
    THEN /\ j <= Len(name)
         /\ InClass(SubSeq(pat, i + 1, ClassEnd(pat, i) - 1), name[j])
         /\ FnMatchFrom(pat, ClassEnd(pat, i) + 1, name, j + 1)
    ELSE j <= Len(name) /\ name[j] = pat[i] /\ FnMatchFrom(pat, i + 1, name, j + 1)

\* the directories glob searches for f"{path}/*suffix": the directory of
\* that name, or, when the name reads as a pattern, every directory of the
\* root that the pattern matches, in the order of the root's listing; a
\* pattern that does not begin with a dot matches no name that does
GlobDirs(root, dirname) ==
    IF ~HasMagic(dirname) THEN <<dirname>>
    ELSE LET es   == root.entries
             kept == SelectIndices(
                        [k \in 1..Len(es) |->
                            /\ es[k].isdir
                            /\ IsHidden(dirname) \/ ~IsHidden(es[k].name)
                            /\ FnMatchFrom(dirname, 1, es[k].name, 1)], 1)
         IN  [k \in 1..Len(kept) |-> es[kept[k]].name]

\* the entries of one directory that "*suffix" matches, as paths: those
\* whose name ends with the suffix and does not begin with a dot
GlobInDir(root, dirname, suffix) ==
    LET es   == RootEntry(root, dirname).entries
        kept == SelectIndices(
                   [k \in 1..Len(es) |->
                       es[k].name.suffix = suffix /\ ~IsHidden(es[k].name.stem)], 1)
    IN  [k \in 1..Len(kept) |-> <<dirname, es[kept[k]].name>>]

RECURSIVE GlobFrom(_, _, _, _)
GlobFrom(root, dirs, i, suffix) ==
    IF i > Len(dirs) THEN <<>>
    ELSE GlobInDir(root, dirs[i], suffix) \o GlobFrom(root, dirs, i + 1, suffix)

\* glob.glob(f"{path}/*suffix"), the results root itself free of pattern
\* characters
Glob(root, path, suffix) == GlobFrom(root, GlobDirs(root, path[1]), 1, suffix)

\* the node at a two-component path <<directory, entry>>
NodeAt(root, path) ==
    LET es == RootEntry(root, path[1]).entries
    IN  (CHOOSE e \in {es[i] : i \in 1..Len(es)} : e.name = path[2]).node

\* os.path.isfile(f"{dir}/{filename}"), dir an Option of a path.  The
\* f-string turns None into the text None, and None/filename is a path
\* relative to the working directory: work.none_dir is the Option of the
\* files, by name, of a directory of that name there.
IsFileIn(root, work, dir, filename) ==
    IF dir = None
    THEN work.none_dir # None /\ filename \in DOMAIN work.none_dir[1]
    ELSE /\ NodeAt(root, dir[1]).type = "dir"
         /\ filename \in DOMAIN NodeAt(root, dir[1]).files

\* ---------------------------------------------------------------------------
\* construct_file_paths and define_search_tree.  The path of a geography
\* directory is <<its name>>, relative to the results root; the path of an
\* entry in it is <<directory name, entry name>>.
\* ---------------------------------------------------------------------------

MsgNoSubdirs == "No subdirectories found in provided results directory."
MsgNoResults == "No results could be compiled."

\* construct_file_paths without the check of len(subdirs) == 0
construct_file_paths_unchecked(result_root) ==
    CHOOSE r \in
        { Ok([geo  |-> [i \in 1..Len(subdirs) |-> _clean_string(subdirs[i])],
              path |-> [i \in 1..Len(subdirs) |-> <<subdirs[i]>>]])
          : subdirs \in {Subdirs(result_root)} } : TRUE

construct_file_paths(result_root) ==
    CHOOSE r \in
        { IF Len(subdirs) = 0 THEN Err(MsgNoSubdirs)
          ELSE Ok([geo  |-> [i \in 1..Len(subdirs) |-> _clean_string(subdirs[i])],
                   path |-> [i \in 1..Len(subdirs) |-> <<subdirs[i]>>]])
          : subdirs \in {Subdirs(result_root)} } : TRUE

\* matches[0] if matches else None
FirstOrNone(matches) == IF matches # <<>> THEN Some(matches[1]) ELSE None

SearchBranch(root, geo, path) ==
    [ parent_dir  |-> path,
      geography   |-> geo,
      double      |-> FirstOrNone(Glob(root, path, SfxDouble)),
      anachron    |-> FirstOrNone(Glob(root, path, SfxAnachron)),
      highdist    |-> FirstOrNone(Glob(root, path, SfxHighdist)),
      early_stats |-> FirstOrNone(Glob(root, path, SfxEarly)),
      late_stats  |-> FirstOrNone(Glob(root, path, SfxLate)) ]

\* a dict on which a key already present keeps its value
DictSetDefault(d, key, val) ==
    IF \E i \in 1..Len(d) : d[i].key = key
    THEN d
    ELSE Append(d, [key |-> key, val |-> val])

\* d[key] = val on a dict kept as the sequence of its items in insertion
\* order: a key already present keeps its place and takes the new value.
DictSet(d, key, val) ==
    IF \E i \in 1..Len(d) : d[i].key = key
    THEN [i \in 1..Len(d) |-> IF d[i].key = key THEN [key |-> key, val |-> val] ELSE d[i]]
    ELSE Append(d, [key |-> key, val |-> val])

RECURSIVE SearchTreeFrom(_, _, _, _)
SearchTreeFrom(root, start_paths, i, search_tree) ==
    IF i > Len(start_paths.geo) \/ i > Len(start_paths.path) THEN search_tree
    ELSE CHOOSE r \in
        { SearchTreeFrom(root, start_paths, i + 1, t)
          : t \in { DictSet(search_tree, start_paths.geo[i],
                        SearchBranch(root, start_paths.geo[i], start_paths.path[i])) } }
        : TRUE

define_search_tree(root, start_paths) ==
    Ok(SearchTreeFrom(root, start_paths, 1, <<>>))

\* ---------------------------------------------------------------------------
\* The per-source readers.  A call either returns an Option of an integer or
\* raises: Returned(v) or Raised(exception).
\* ---------------------------------------------------------------------------

Returned(v) == [kind |-> "Returned", value |-> v]

\* the table of a file that was found: a file without any line, which has
\* not even a header, cannot be parsed
ParseCsv(table) ==
    IF table.header = <<>> THEN Raised("NoDataError") ELSE Returned(table)

\* The entries called name in the directory dir of the root: one, or none.
EntriesAt(root, dir, name) ==
    { e \in UNION { {d.entries[k] : k \in 1..Len(d.entries)}
                    : d \in {d \in {root.entries[i] : i \in 1..Len(root.entries)} :
                               d.name = dir} }
        : e.name = name }

\* The read of the one file at a path: path is <<directory, entry>> for a
\* file of the geography directory and <<directory, entry, file name>> for
\* a file inside one of its subdirectories.
ReadFile(root, path) ==
    IF EntriesAt(root, path[1], path[2]) = {} THEN Raised("FileNotFoundError")
    ELSE CHOOSE r \in
        { IF Len(path) = 2
          THEN (IF e.node.type = "file" THEN ParseCsv(e.node.table)
                ELSE Raised("IsADirectoryError"))
          ELSE (IF e.node.type = "dir" /\ path[3] \in DOMAIN e.node.files
                THEN ParseCsv(e.node.files[path[3]])
                ELSE Raised("FileNotFoundError"))
          : e \in EntriesAt(root, path[1], path[2]) } : TRUE

\* The pattern language of the glob that polars expands a path with
\* differs from that of fnmatch.  At a "[" in place i of the pattern: the
\* place of the "]" that closes the class, 0 when none does, which makes
\* the pattern invalid.  The class holds one character at least; behind
\* "[!" it is negated and the "]" is looked for from the second place
\* behind the "!" on.
PatClassEnd(pat, i) ==
    LET from    == IF i + 3 <= Len(pat) /\ pat[i + 1] = "!" THEN i + 3
                   ELSE IF i + 2 <= Len(pat) /\ pat[i + 1] # "!" THEN i + 2
                   ELSE Len(pat) + 1
        closing == {j \in from..Len(pat) : pat[j] = "]"}
    IN  IF closing = {} THEN 0
        ELSE CHOOSE j \in closing : \A l \in closing : j <= l

RECURSIVE InSpecifiers(_, _, _)
\* the character is among the specifiers of a class from place k on: three
\* characters with a hyphen in the middle are a range, which holds nothing
\* when its first character is behind its last, and any other character
\* stands for itself
InSpecifiers(spec, k, c) ==
    IF k > Len(spec) THEN FALSE
    ELSE IF k + 2 <= Len(spec) /\ spec[k + 1] = "-"
    THEN \/ Ord(spec[k]) <= Ord(c) /\ Ord(c) <= Ord(spec[k + 2])
         \/ InSpecifiers(spec, k + 3, c)
    ELSE spec[k] = c \/ InSpecifiers(spec, k + 1, c)

RECURSIVE PatValid(_, _)
\* the pattern can be compiled from place i on: every "[" has its class.
\* Two stars in a row are accepted only as a whole directory name, which
\* is a search at any depth and which no root of the model holds; such a
\* pattern is taken as invalid here.
PatValid(pat, i) ==
    IF i > Len(pat) THEN TRUE
    ELSE IF pat[i] = "["
    THEN PatClassEnd(pat, i) # 0 /\ PatValid(pat, PatClassEnd(pat, i) + 1)
    ELSE IF pat[i] = "*" /\ i < Len(pat) /\ pat[i + 1] = "*" THEN FALSE
    ELSE PatValid(pat, i + 1)

RECURSIVE PatMatchFrom(_, _, _, _)
\* the valid pattern from place i on matches the name from place j on; a
\* star and a question mark match a leading dot as any other character
PatMatchFrom(pat, i, name, j) ==
    IF i > Len(pat) THEN j > Len(name)
    ELSE IF pat[i] = "*"
    THEN \/ PatMatchFrom(pat, i + 1, name, j)
         \/ j <= Len(name) /\ PatMatchFrom(pat, i, name, j + 1)
    ELSE IF j > Len(name) THEN FALSE
    ELSE IF pat[i] = "?" THEN PatMatchFrom(pat, i + 1, name, j + 1)
    ELSE IF pat[i] = "["
    THEN /\ IF pat[i + 1] = "!"
            THEN ~InSpecifiers(SubSeq(pat, i + 2, PatClassEnd(pat, i) - 1), 1, name[j])
            ELSE InSpecifiers(SubSeq(pat, i + 1, PatClassEnd(pat, i) - 1), 1, name[j])
         /\ PatMatchFrom(pat, PatClassEnd(pat, i) + 1, name, j + 1)
    ELSE name[j] = pat[i] /\ PatMatchFrom(pat, i + 1, name, j + 1)

\* The directories the expansion of the path reaches: those of the root
\* whose name the first component matches as a pattern and under which the
\* rest of the path exists, in the order of their names (character by
\* character, by code) and not of the listing.
ExpandDirs(root, path) ==
    LET Exists(dir) ==
            \E e \in EntriesAt(root, dir, path[2]) :
                Len(path) = 3 => e.node.type = "dir" /\ path[3] \in DOMAIN e.node.files
        Before(a, b) ==
            \E k \in 1..Len(b) :
                /\ \A m \in 1..(k - 1) : m <= Len(a) /\ a[m] = b[m]
                /\ k > Len(a) \/ Ord(a[k]) < Ord(b[k])
        found == { root.entries[i].name : i \in
                     { i \in 1..Len(root.entries) :
                         /\ root.entries[i].isdir
                         /\ PatMatchFrom(path[1], 1, root.entries[i].name, 1)
                         /\ Exists(root.entries[i].name) } }
    IN  [k \in 1..Cardinality(found) |->
            CHOOSE x \in found : Cardinality({y \in found : Before(y, x)}) = k - 1]

\* pl.read_csv(path, separator="\t"), the results root itself free of
\* pattern characters.  A path that holds *, ? or [ is not opened as it
\* stands: read_csv expands it as a pattern and returns the tables of all
\* the files it reaches, one behind the other.  In the paths of the model
\* only the name of the geography directory can hold such a character.
\* No file reached, or a pattern that cannot be compiled, raises; so does a
\* file that cannot be read, and files whose columns differ.
ReadCsv(root, path) ==
    IF ~HasMagic(path[1]) THEN ReadFile(root, path)
    ELSE IF ~PatValid(path[1], 1) THEN Raised("ComputeError")
    ELSE CHOOSE r \in
        { IF dirs = <<>> THEN Raised("ComputeError")
          ELSE LET reads == [k \in 1..Len(dirs) |->
                                ReadFile(root, <<dirs[k]>> \o Tail(path))]
               IN  IF \E k \in 1..Len(reads) : reads[k].kind = "Raised"
                   THEN reads[CHOOSE k \in 1..Len(reads) :
                                /\ reads[k].kind = "Raised"
                                /\ \A m \in 1..(k - 1) : reads[m].kind # "Raised"]
                   ELSE IF \E k \in 2..Len(reads) :
                               reads[k].value.header # reads[1].value.header
                   THEN Raised("SchemaError")
                   ELSE Returned([header |-> reads[1].value.header,
                                  rows   |-> Concat([k \in 1..Len(reads) |->
                                                        reads[k].value.rows], 1)])
          : dirs \in {ExpandDirs(root, path)} } : TRUE

ColumnIndex(header, col) == CHOOSE j \in 1..Len(header) : header[j] = col

\* stats_df.select(pl.col(["num_seqs"])).to_series().to_list()[0]: the
\* first cell of the column, an Option of an integer (None for a cell that
\* the file leaves empty, which read_csv reads as null)
FirstNumSeqs(read) ==
    IF read.kind = "Raised" THEN read
    ELSE IF ~\E j \in 1..Len(read.value.header) : read.value.header[j] = "num_seqs"
         THEN Raised("ColumnNotFoundError")
    ELSE IF read.value.rows = <<>> THEN Raised("IndexError")
    ELSE Returned(read.value.rows[1][ColumnIndex(read.value.header, "num_seqs")])

\* anachron_df.shape[0]
RowCount(read) ==
    IF read.kind = "Raised" THEN read ELSE Returned(Some(Len(read.value.rows)))

\* _get_early_count with an absent file counted as zero sequences
_get_early_count_absent_zero(root, path) ==
    IF path = None THEN Returned(Some(0))
    ELSE CHOOSE r \in { FirstNumSeqs(read) : read \in {ReadCsv(root, path[1])} } : TRUE

_get_early_count(root, path) ==
    IF path = None THEN Returned(None)
    ELSE CHOOSE r \in { FirstNumSeqs(read) : read \in {ReadCsv(root, path[1])} } : TRUE

_get_late_count(root, path) ==
    IF path = None THEN Returned(None)
    ELSE CHOOSE r \in { FirstNumSeqs(read) : read \in {ReadCsv(root, path[1])} } : TRUE

_summarize_anachrons(root, path) ==
    IF path = None THEN Returned(None)
    ELSE CHOOSE r \in
        { RowCount(read) : read \in {ReadCsv(root, path[1] \o <<FileAnachron>>)} } : TRUE

_summarize_highdist(root, path) ==
    IF path = None THEN Returned(None)
    ELSE CHOOSE r \in
        { RowCount(read) : read \in {ReadCsv(root, path[1] \o <<FileHighdist>>)} } : TRUE

\* ---------------------------------------------------------------------------
\* stats_pipeline.  The table is the sequence of its rows; an Int64 cell is
\* an Option of an integer, a Float64 cell a Float64 value (FNull for null),
\* a Utf8 cell an Option of a string.  The expressions are those of polars:
\* the division of two Int64 columns is the Float64 division (x/0 is inf, 0/0
\* is NaN), and a null operand gives null in every expression, also in a
\* column that holds nothing but nulls.
\* ---------------------------------------------------------------------------

\* the values num_seqs takes in the count files of the model
NumSeqValues == {0, 1, 5, 49, 1000}

\* the most data rows of a metadata file of the model
MaxRows == 2

\* every Int64 cell a count column of the model can hold
CountCells == {None} \cup {Some(n) : n \in NumSeqValues \cup (0..MaxRows)}

\* an Int64 cell as the Float64 operand of a true division
IntToFloat(cell) == IF cell = None THEN FNull ELSE FromInt(cell[1])

\* (pl.col(count) / pl.col("Input Sequence Count")) * 100
PrevalenceExpr(count, input) ==
    FloatMulInt(FloatDiv(IntToFloat(count), IntToFloat(input)), 100)

\* pl.concat_str(..., ignore_nulls=True): a null column is left out
ConcatStrIgnoreNulls(lit, cell) == IF cell = None THEN Some(lit) ELSE Some(lit \o cell[1])

\* pl.concat_str([pl.lit(lit), column]): null if the column is null
ConcatStr(lit, cell) == IF cell = None THEN None ELSE Some(lit \o cell[1])

\* pl.concat_str([pl.lit("1 in "), (1 / (pl.col(prev) / 100)).floor().cast(pl.Utf8)])
RateExpr(prev) ==
    ConcatStr("1 in ",
        FloatToUtf8(FloatFloor(FloatDiv(FromInt(1), FloatDiv(prev, FromInt(100))))))

\* the two derived cells of a category, for every pair of count cells
DerivedCells ==
    [count \in CountCells, input \in CountCells |->
        CHOOSE r \in
            { [prevalence |-> p, rate |-> RateExpr(p)]
              : p \in {PrevalenceExpr(count, input)} } : TRUE]

StatsRow(geo, input, double, anachron, highdist) ==
    [ Geography    |-> geo,
      Input        |-> input,
      DoubleCount  |-> double,
      DoublePrev   |-> DerivedCells[double, input].prevalence,
      DoubleRate   |-> DerivedCells[double, input].rate,
      AnachronCount |-> anachron,
      AnachronPrev  |-> DerivedCells[anachron, input].prevalence,
      AnachronRate  |-> DerivedCells[anachron, input].rate,
      HighdistCount |-> highdist,
      HighdistPrev  |-> DerivedCells[highdist, input].prevalence,
      HighdistRate  |-> DerivedCells[highdist, input].rate ]

\* the first call, in the order the columns are built, that raised
FirstRaised(calls) ==
    calls[CHOOSE i \in 1..Len(calls) :
            /\ calls[i].kind = "Raised"
            /\ \A j \in 1..(i - 1) : calls[j].kind # "Raised"]

\* the table, from the readers' results column by column
StatsFrame(search_tree, early, late, anachron, highdist) ==
    IF \E i \in 1..Len(early \o late \o anachron \o highdist) :
           (early \o late \o anachron \o highdist)[i].kind = "Raised"
    THEN FirstRaised(early \o late \o anachron \o highdist)
    ELSE IF Len(search_tree) = 0 THEN Err(MsgNoResults)
    ELSE Ok([i \in 1..Len(search_tree) |->
                StatsRow(search_tree[i].key, early[i].value, late[i].value,
                         anachron[i].value, highdist[i].value)])

stats_pipeline(root, search_tree) ==
    CHOOSE r \in
        { StatsFrame(search_tree, c[1], c[2], c[3], c[4])
          : c \in { << [i \in 1..Len(search_tree) |->
                          _get_early_count(root, search_tree[i].val.early_stats)],
                       [i \in 1..Len(search_tree) |->
                          _get_late_count(root, search_tree[i].val.late_stats)],
                       [i \in 1..Len(search_tree) |->
                          _summarize_anachrons(root, search_tree[i].val.anachron)],
                       [i \in 1..Len(search_tree) |->
                          _summarize_highdist(root, search_tree[i].val.highdist)] >> } }
        : TRUE

\* ---------------------------------------------------------------------------
\* _search_tree_meta and compile_metadata.  A line of the staging file and a
\* row of a table are sequences of fields; a field is a sequence of strings
\* (the characters of a geography name, the name of a column, the tokens of
\* a cell), and the empty field reads back as null.
\* ---------------------------------------------------------------------------

ColGeography == <<"Geography">>
NullField == <<>>

Categories == <<"anachron", "highdist", "double">>

\* the arguments compile_metadata passes for each category
MetaFile(cat) ==
    CASE cat = "anachron" -> FileAnachron
      [] cat = "highdist" -> FileHighdist
      [] cat = "double"   -> FileDouble

MetaOutput(cat) ==
    CASE cat = "anachron" -> "anachronistics-meta.arrow"
      [] cat = "highdist" -> "highdist-meta.arrow"
      [] cat = "double"   -> "double-meta.arrow"

\* getattr(branch, branch_name)
BranchAttr(branch, branch_name) ==
    CASE branch_name = "anachron" -> branch.anachron
      [] branch_name = "highdist" -> branch.highdist
      [] branch_name = "double"   -> branch.double

\* os.path.isfile(meta_path) for meta_path = f"{getattr(branch, branch_name)}/{filename}"
Contributes(root, work, branch, branch_name, filename) ==
    IsFileIn(root, work, BranchAttr(branch, branch_name), filename)

\* pl.read_csv(meta_path, separator="\t") for that meta_path
ReadMeta(root, work, dir, filename) ==
    IF dir = None THEN ParseCsv(work.none_dir[1][filename])
    ELSE ReadCsv(root, dir[1] \o <<filename>>)

\* .with_columns(pl.lit(geo).alias("Geography")): a column Geography that
\* the table already has is replaced where it stands, and otherwise the
\* column is added behind the others
WithGeography(table, geo) ==
    IF \E j \in 1..Len(table.header) : table.header[j] = ColGeography
    THEN [header |-> table.header,
          rows   |-> [k \in 1..Len(table.rows) |->
                        [j \in 1..Len(table.header) |->
                            IF j = ColumnIndex(table.header, ColGeography) THEN geo
                            ELSE table.rows[k][j]]]]
    ELSE [header |-> table.header \o <<ColGeography>>,
          rows   |-> [k \in 1..Len(table.rows) |-> table.rows[k] \o <<geo>>]]

\* pl.read_csv(meta_path).with_columns(pl.lit(geo).alias("Geography"))
\*     .write_csv(tmp, has_header=header): the lines written.  The cells of
\* the model are text that read_csv reads as strings and write_csv writes
\* back as it was read.
TaggedLines(table, geo, header) ==
    (IF header THEN <<WithGeography(table, geo).header>> ELSE <<>>)
    \o WithGeography(table, geo).rows

\* One pass of the loop body for one geography: st is
\* [ticker, staging, raised], staging the Option of the lines of tmp.tsv
\* and raised the Option of the exception that left the body.  The staging
\* file is opened before the source is read.
StageGeography(root, work, st, geo, branch, branch_name, filename) ==
    IF ~Contributes(root, work, branch, branch_name, filename) THEN st
    ELSE LET read == ReadMeta(root, work, BranchAttr(branch, branch_name), filename)
         IN  IF read.kind = "Raised"
             THEN [ticker  |-> st.ticker + 1,
                   staging |-> IF st.ticker + 1 = 1 THEN Some(<<>>) ELSE st.staging,
                   raised  |-> Some(read.exception)]
             ELSE IF st.ticker + 1 = 1
             THEN [ticker  |-> 1,
                   staging |-> Some(TaggedLines(read.value, geo, TRUE)),
                   raised  |-> None]
             ELSE [ticker  |-> st.ticker + 1,
                   staging |-> Some((IF st.staging = None THEN <<>> ELSE st.staging[1])
                                    \o TaggedLines(read.value, geo, FALSE)),
                   raised  |-> None]

\* One line of the staging file under a header of width w: missing fields
\* are null; a line with more fields than the header is cut to the header.
ParseLine(line, w) ==
    [j \in 1..w |-> IF j <= Len(line) THEN line[j] ELSE NullField]

\* pl.scan_csv(temp_file_path).sink_ipc(output_name): the table read from
\* the staging lines.  A data line longer than the header raises when the
\* installed polars rejects ragged lines and is cut otherwise.
SinkStaging(lines, ragged) ==
    IF ragged = "raise" /\ \E k \in 2..Len(lines) : Len(lines[k]) > Len(lines[1])
    THEN Raised("ComputeError")
    ELSE Returned([header |-> lines[1],
                   rows   |-> [k \in 1..(Len(lines) - 1) |->
                                 ParseLine(lines[k + 1], Len(lines[1]))]])

\* ---------------------------------------------------------------------------
\* The results roots of the model.  A geography directory is described by
\* the sources it holds for each category, in the order of its listing: no
\* source, or one source per matching entry.
\* ---------------------------------------------------------------------------

\* the most geography directories under a results root
MaxGeos == 2

NameGisaidA  == <<"G", "I", "S", "A", "I", "D", "_", "A", "_", "a">>
NameLocalB   == <<"L", "o", "c", "a", "l", "D", "a", "t", "a", "s", "e", "t", "_", "B">>
NameGenBankA == <<"G", "e", "n", "B", "a", "n", "k", "_", "A", "_", "a">>

\* names that clean to different geographies, and a name that cleans to the
\* same geography as the first of them
GeoNames == <<NameGisaidA, NameLocalB, <<"C">>, <<"D">>>>

StatNoCol == [st |-> "nocol"]
StatNoRow == [st |-> "norow"]
StatEmpty == [st |-> "empty"]
StatOk(n) == [st |-> "ok", n |-> n]
MetaNoFile == [st |-> "nofile"]
MetaOk(header, nrows) == [st |-> "ok", header |-> header, nrows |-> nrows]

\* the count file of a source: without the column num_seqs, without a data
\* row, with a first row whose num_seqs cell is empty, or with a first row
\* that holds a number there.  A cell of num_seqs is an Option of an integer.
StatNode(src) ==
    [ type  |-> "file",
      table |-> CASE src.st = "nocol" -> [header |-> <<"format", "sum_len">>,
                                           rows   |-> <<<<"FASTA", 7>>>>]
                  [] src.st = "norow" -> [header |-> <<"format", "num_seqs">>,
                                           rows   |-> <<>>]
                  [] src.st = "empty" -> [header |-> <<"format", "num_seqs">>,
                                           rows   |-> <<<<"FASTA", None>>>>]
                  [] src.st = "ok"    -> [header |-> <<"format", "num_seqs">>,
                                           rows   |-> <<<<"FASTA", Some(src.n)>>>>] ]

\* the metadata table of geography directory gi: every cell is its own value
MetaTable(gi, header, nrows) ==
    [ header |-> [j \in 1..Len(header) |-> <<header[j]>>],
      rows   |-> [k \in 1..nrows |->
                    [j \in 1..Len(header) |->
                        <<"v", ToString(gi), header[j], ToString(k)>>]] ]

\* the category directory of a source, with or without its expected file
MetaNode(gi, filename, src) ==
    [ type  |-> "dir",
      files |-> IF src.st = "nofile" THEN <<>>
                ELSE [f \in {filename} |-> MetaTable(gi, src.header, src.nrows)] ]

StatEntries(suffix, srcs) ==
    [k \in 1..Len(srcs) |->
        [name |-> [stem |-> <<ToString(k)>>, suffix |-> suffix], node |-> StatNode(srcs[k])]]

MetaEntries(gi, suffix, filename, srcs) ==
    [k \in 1..Len(srcs) |->
        [name |-> [stem |-> <<ToString(k)>>, suffix |-> suffix],
         node |-> MetaNode(gi, filename, srcs[k])]]

GeoEntries(gi, spec) ==
    StatEntries(SfxEarly, spec.early) \o StatEntries(SfxLate, spec.late)
    \o MetaEntries(gi, SfxAnachron, FileAnachron, spec.anachron)
    \o MetaEntries(gi, SfxHighdist, FileHighdist, spec.highdist)
    \o MetaEntries(gi, SfxDouble, FileDouble, spec.double)

PlainFile == [name |-> <<"R", "E", "A", "D", "M", "E">>, isdir |-> FALSE, entries |-> <<>>]

\* a results root with the geography directories names[i] described by
\* specs[i], and a plain file behind the first of them if plain
MkRoot(names, specs, plain) ==
    LET dirs == [i \in 1..Len(names) |->
                    [name |-> names[i], isdir |-> TRUE,
                     entries |-> GeoEntries(i, specs[i])]]
    IN  [ kind    |-> "dir",
          entries |-> IF ~plain THEN dirs
                      ELSE IF dirs = <<>> THEN <<PlainFile>>
                      ELSE <<dirs[1], PlainFile>> \o SubSeq(dirs, 2, Len(dirs)) ]

GeoSpec(early, late, anachron, highdist, double) ==
    [early |-> early, late |-> late, anachron |-> anachron,
     highdist |-> highdist, double |-> double]

\* sequences of n elements of S
SeqsOf(S, n) == [1..n -> S]

\* the listings of n of the geography names: in the order of GeoNames, in
\* the reverse order, and with the two names that clean to the same name
NameLists(n) ==
    {[i \in 1..n |-> GeoNames[i]], [i \in 1..n |-> GeoNames[n + 1 - i]]}
    \cup (IF n >= 2 THEN {[i \in 1..n |-> IF i = 2 THEN NameGenBankA ELSE GeoNames[i]]}
          ELSE {})

NoRoots ==
    { [kind |-> "missing", entries |-> <<>>],
      [kind |-> "file", entries |-> <<>>],
      MkRoot(<<>>, <<>>, FALSE),
      MkRoot(<<>>, <<>>, TRUE) }

\* Roots for the metadata tables: one category takes every shape of source
\* in every geography (no directory, no file, a file without any line, a
\* table), the other sources of a geography are all present.
MetaHeaders == {<<"a", "b">>, <<"a">>, <<"b", "a">>}

MetaShapes ==
    {<<>>, <<MetaNoFile>>, <<MetaOk(<<>>, 0)>>}
    \cup {<<MetaOk(h, k)>> : h \in MetaHeaders, k \in {0, MaxRows}}

SimpleMeta == <<MetaOk(<<"a">>, 1)>>

MetaGeoSpecs(cat) ==
    { GeoSpec(<<StatOk(1000)>>, <<StatOk(5)>>,
              IF cat = "anachron" THEN m ELSE SimpleMeta,
              IF cat = "highdist" THEN m ELSE SimpleMeta,
              IF cat = "double"   THEN m ELSE SimpleMeta)
      : m \in MetaShapes }

\* the listings: each order of the names, without and with a plain file
Listings(n) ==
    {<<names, FALSE>> : names \in NameLists(n)}
    \cup {<<[i \in 1..n |-> GeoNames[i]], TRUE>>}

PipelineRoots(n, cat) ==
    { MkRoot(l[1], specs, l[2])
      : l \in Listings(n), specs \in SeqsOf(MetaGeoSpecs(cat), n) }

\* Roots for the statistics table: one geography takes every combination of
\* sources, in any place among companions of a few kinds.
StudiedGeoSpecs ==
    { GeoSpec(e, l, a, h, <<>>)
      : e \in {<<>>, <<StatNoCol>>, <<StatEmpty>>} \cup {<<StatOk(v)>> : v \in {0, 49, 1000}},
        l \in {<<>>, <<StatNoRow>>, <<StatEmpty>>} \cup {<<StatOk(v)>> : v \in {0, 1, 5}},
        a \in {<<>>, <<MetaNoFile>>} \cup {<<MetaOk(<<"a">>, k)>> : k \in {0, 1}},
        h \in {<<>>} \cup {<<MetaOk(<<"a">>, k)>> : k \in {0, MaxRows}} }

CompanionGeoSpecs ==
    { GeoSpec(<<>>, <<>>, <<>>, <<>>, <<>>),
      GeoSpec(<<StatOk(1000)>>, <<>>, <<>>, <<>>, <<>>),
      GeoSpec(<<StatOk(1000)>>, <<StatOk(5)>>, <<MetaOk(<<"a">>, 1)>>,
              <<MetaOk(<<"a">>, 0)>>, <<MetaOk(<<"a">>, 1)>>),
      GeoSpec(<<StatEmpty>>, <<StatOk(5)>>, <<MetaOk(<<"a">>, 1)>>,
              <<MetaOk(<<"a">>, 0)>>, <<MetaOk(<<"a">>, 1)>>),
      GeoSpec(<<StatOk(49)>>, <<StatOk(1)>>, <<MetaNoFile>>, <<>>, <<>>),
      GeoSpec(<<StatOk(1000), StatOk(49)>>, <<StatOk(5), StatOk(1)>>,
              <<MetaOk(<<"a">>, 1), MetaNoFile>>,
              <<MetaOk(<<"a">>, 0), MetaOk(<<"a">>, MaxRows)>>,
              <<MetaNoFile, MetaOk(<<"a">>, 1)>>) }

StatsRoots(n, at) ==
    { MkRoot([i \in 1..n |-> GeoNames[i]],
             [i \in 1..n |-> IF i = at THEN studied ELSE others[i]],
             FALSE)
      : studied \in StudiedGeoSpecs, others \in SeqsOf(CompanionGeoSpecs, n) }

\* the names _clean_string is applied to on its own: up to MaxPieces pieces
MaxPieces == 4

NamePieces ==
    { PfxLocalDataset, PfxGISAID, PfxGenBank,
      <<"N", "o", "r", "t", "h", "_", "A", "m", "e", "r", "i", "c", "a">>,
      <<"_">>, <<" ", "x">>, <<"G", "I", "S">>, <<"A", "I", "D", "_">> }

\* ---------------------------------------------------------------------------
\* The run of main.
\* ---------------------------------------------------------------------------

VARIABLES
    fs,              \* the results root, as the file system holds it
    ragged,          \* what the installed polars does with an overlong line
    cwd,             \* the working directory: the spreadsheet and the Arrow files
                     \* written, and the directory called None if there is one
    pc,              \* where main is
    outcome,         \* how the process ended, None while it runs
    message_result,  \* the Result of construct_file_paths
    tree_result,     \* the Result of define_search_tree
    stats_result,    \* the Result of stats_pipeline, or what it raised
    meta_result,     \* the Result of compile_metadata, or what it raised
    meta,            \* the call of _search_tree_meta in progress
    temp_dirs,       \* the staging directories that exist
    pieces,          \* the pieces of the name given to _clean_string
    cleaned,         \* what _clean_string returned for it
    earlier          \* the listing an earlier run was given and the Arrow files it left, None in a first run

vars == <<fs, ragged, cwd, pc, outcome, message_result, tree_result,
          stats_result, meta_result, meta, temp_dirs, pieces, cleaned, earlier>>

OutputNames == {MetaOutput(Categories[c]) : c \in 1..Len(Categories)}

\* an Arrow file left in the working directory by an earlier run
StaleTable ==
    [ header |-> <<<<"a">>, ColGeography>>,
      rows   |-> <<<< <<"v", "0", "a", "1">>, <<"O", "l", "d">> >>>> ]

NoCall == [cat |-> 0, idx |-> 0, ticker |-> 0, staging |-> None, dir |-> 0,
           pending |-> None]

InitRun ==
    /\ pc = "start"
    /\ outcome = None
    /\ message_result = None
    /\ tree_result = None
    /\ stats_result = None
    /\ meta_result = None
    /\ meta = NoCall
    /\ temp_dirs = {}
    /\ pieces = <<>>
    /\ cleaned = None
    /\ earlier = None

InitEnv ==
    /\ ragged \in {"raise", "truncate"}
    /\ cwd \in { [xlsx |-> None, arrow |-> [f \in OutputNames |-> None],
                  none_dir |-> None],
                 [xlsx |-> None, arrow |-> [f \in OutputNames |-> Some(StaleTable)],
                  none_dir |-> None] }

Init ==
    /\ \/ fs \in NoRoots
       \/ \E n \in 1..MaxGeos, cat \in {"anachron", "highdist", "double"} :
              fs \in PipelineRoots(n, cat)
    /\ InitEnv
    /\ InitRun

InitStats ==
    /\ \/ fs \in NoRoots
       \/ \E n \in 1..MaxGeos, at \in 1..MaxGeos : at <= n /\ fs \in StatsRoots(n, at)
    /\ ragged = "raise"
    /\ cwd = [xlsx |-> None, arrow |-> [f \in OutputNames |-> None],
              none_dir |-> None]
    /\ InitRun

Exit(by, phase) == Some([code |-> 1, by |-> by, phase |-> phase])

\* assert os.path.exists(args.results_dir) and os.path.isdir(args.results_dir)
MainAssert ==
    /\ pc = "start"
    /\ IF fs.kind = "dir"
       THEN pc' = "paths" /\ outcome' = outcome
       ELSE pc' = "exit" /\ outcome' = Exit("AssertionError", "start")
    /\ UNCHANGED <<earlier, fs, ragged, cwd, message_result, tree_result, stats_result,
                   meta_result, meta, temp_dirs, pieces, cleaned>>

\* message_result = construct_file_paths(args.results_dir) and its match
CallConstructFilePaths ==
    /\ pc = "paths"
    /\ message_result' = Some(construct_file_paths(fs))
    /\ IF message_result'[1].kind = "Ok"
       THEN pc' = "tree" /\ outcome' = outcome
       ELSE pc' = "exit" /\ outcome' = Exit("sys.exit", "paths")
    /\ UNCHANGED <<earlier, fs, ragged, cwd, tree_result, stats_result, meta_result, meta,
                   temp_dirs, pieces, cleaned>>

\* tree_result = define_search_tree(starter_paths) and its match
CallDefineSearchTree ==
    /\ pc = "tree"
    /\ tree_result' = Some(define_search_tree(fs, message_result[1].value))
    /\ IF tree_result'[1].kind = "Ok"
       THEN pc' = "stats" /\ outcome' = outcome
       ELSE pc' = "exit" /\ outcome' = Exit("sys.exit", "tree")
    /\ UNCHANGED <<earlier, fs, ragged, cwd, message_result, stats_result, meta_result, meta,
                   temp_dirs, pieces, cleaned>>

\* stats_result = stats_pipeline(search_tree) and its match
CallStatsPipeline ==
    /\ pc = "stats"
    /\ stats_result' = Some(stats_pipeline(fs, tree_result[1].value))
    /\ IF stats_result'[1].kind = "Ok"
       THEN pc' = "excel" /\ outcome' = outcome
       ELSE IF stats_result'[1].kind = "Err"
       THEN pc' = "exit" /\ outcome' = Exit("sys.exit", "stats")
       ELSE pc' = "exit" /\ outcome' = Exit(stats_result'[1].exception, "stats")
    /\ UNCHANGED <<earlier, fs, ragged, cwd, message_result, tree_result, meta_result, meta,
                   temp_dirs, pieces, cleaned>>

\* stats_df.write_excel("alpine_run_statistics.xlsx", autofit=True)
WriteExcel ==
    /\ pc = "excel"
    /\ cwd' = [cwd EXCEPT !.xlsx = Some(stats_result[1].value)]
    /\ pc' = "meta_enter"
    /\ meta' = [NoCall EXCEPT !.cat = 1]
    /\ UNCHANGED <<earlier, fs, ragged, outcome, message_result, tree_result, stats_result,
                   meta_result, temp_dirs, pieces, cleaned>>

\* _search_tree_meta: with tempfile.TemporaryDirectory() as temp_dir
MetaEnter ==
    /\ pc = "meta_enter"
    /\ meta' = [cat |-> meta.cat, idx |-> 1, ticker |-> 0, staging |-> None,
                dir |-> meta.dir + 1, pending |-> None]
    /\ temp_dirs' = temp_dirs \cup {meta.dir + 1}
    /\ pc' = "meta_loop"
    /\ UNCHANGED <<earlier, fs, ragged, cwd, outcome, message_result, tree_result,
                   stats_result, meta_result, pieces, cleaned>>

\* _search_tree_meta: one geography of for geo, branch in search_tree.items()
MetaLoop ==
    /\ pc = "meta_loop"
    /\ meta.idx <= Len(tree_result[1].value)
    /\ LET item == tree_result[1].value[meta.idx]
           st   == StageGeography(fs, cwd,
                                  [ticker |-> meta.ticker, staging |-> meta.staging,
                                   raised |-> None],
                                  item.key, item.val, Categories[meta.cat],
                                  MetaFile(Categories[meta.cat]))
       IN  IF st.raised # None
           THEN /\ meta' = [meta EXCEPT !.ticker = st.ticker, !.staging = st.staging,
                                        !.pending = st.raised]
                /\ pc' = "meta_exit"
           ELSE /\ meta' = [meta EXCEPT !.idx = @ + 1, !.ticker = st.ticker,
                                        !.staging = st.staging]
                /\ pc' = pc
    /\ UNCHANGED <<earlier, fs, ragged, cwd, outcome, message_result, tree_result,
                   stats_result, meta_result, temp_dirs, pieces, cleaned>>

\* _search_tree_meta: if ticker > 0: pl.scan_csv(...).sink_ipc(output_name)
MetaSink ==
    /\ pc = "meta_loop"
    /\ meta.idx > Len(tree_result[1].value)
    /\ pc' = "meta_exit"
    /\ IF meta.ticker > 0
       THEN LET r == SinkStaging(meta.staging[1], ragged)
            IN  IF r.kind = "Raised"
                THEN /\ meta' = [meta EXCEPT !.pending = Some(r.exception)]
                     /\ cwd' = cwd
                ELSE /\ cwd' = [cwd EXCEPT
                                  !.arrow[MetaOutput(Categories[meta.cat])] = Some(r.value)]
                     /\ meta' = meta
       ELSE meta' = meta /\ cwd' = cwd
    /\ UNCHANGED <<earlier, fs, ragged, outcome, message_result, tree_result, stats_result,
                   meta_result, temp_dirs, pieces, cleaned>>

\* the same exit with a staging directory that only a return removes
MetaExitOnReturnOnly ==
    /\ pc = "meta_exit"
    /\ temp_dirs' = IF meta.pending # None THEN temp_dirs ELSE temp_dirs \ {meta.dir}
    /\ IF meta.pending # None
       THEN /\ pc' = "exit"
            /\ outcome' = Exit(meta.pending[1], "meta")
            /\ meta_result' = Some(Raised(meta.pending[1]))
            /\ meta' = [meta EXCEPT !.staging = None]
       ELSE /\ outcome' = outcome
            /\ meta_result' = meta_result
            /\ IF meta.cat < Len(Categories)
               THEN pc' = "meta_enter"
                    /\ meta' = [meta EXCEPT !.cat = @ + 1, !.staging = None]
               ELSE pc' = "meta_scan" /\ meta' = [meta EXCEPT !.staging = None]
    /\ UNCHANGED <<earlier, fs, ragged, cwd, message_result, tree_result, stats_result,
                   pieces, cleaned>>

\* _search_tree_meta: the with statement is left and the staging directory
\* removed, by the return or by the exception that passes through it
MetaExit ==
    /\ pc = "meta_exit"
    /\ temp_dirs' = temp_dirs \ {meta.dir}
    /\ IF meta.pending # None
       THEN /\ pc' = "exit"
            /\ outcome' = Exit(meta.pending[1], "meta")
            /\ meta_result' = Some(Raised(meta.pending[1]))
            /\ meta' = [meta EXCEPT !.staging = None]
       ELSE /\ outcome' = outcome
            /\ meta_result' = meta_result
            /\ IF meta.cat < Len(Categories)
               THEN pc' = "meta_enter"
                    /\ meta' = [meta EXCEPT !.cat = @ + 1, !.staging = None]
               ELSE pc' = "meta_scan" /\ meta' = [meta EXCEPT !.staging = None]
    /\ UNCHANGED <<earlier, fs, ragged, cwd, message_result, tree_result, stats_result,
                   pieces, cleaned>>

\* compile_metadata: return Ok(CompiledMeta(pl.scan_ipc(...), ...)) and the
\* match of main; pl.scan_ipc raises on a file that does not exist
CompileScan ==
    /\ pc = "meta_scan"
    /\ IF \E f \in OutputNames : cwd.arrow[f] = None
       THEN /\ meta_result' = Some(Raised("FileNotFoundError"))
            /\ pc' = "exit"
            /\ outcome' = Exit("FileNotFoundError", "meta")
       ELSE /\ meta_result' =
                  Some(Ok([anachron |-> cwd.arrow[MetaOutput("anachron")][1],
                           highdist |-> cwd.arrow[MetaOutput("highdist")][1],
                           double   |-> cwd.arrow[MetaOutput("double")][1]]))
            /\ pc' = "done"
            /\ outcome' = Some([code |-> 0, by |-> "return", phase |-> "done"])
    /\ UNCHANGED <<earlier, fs, ragged, cwd, message_result, tree_result, stats_result,
                   meta, temp_dirs, pieces, cleaned>>

Next ==
    \/ MainAssert
    \/ CallConstructFilePaths
    \/ CallDefineSearchTree
    \/ CallStatsPipeline
    \/ WriteExcel
    \/ MetaEnter
    \/ MetaLoop
    \/ MetaSink
    \/ MetaExit
    \/ CompileScan

Spec == Init /\ [][Next]_vars

SpecStats == InitStats /\ [][Next]_vars

\* ---------------------------------------------------------------------------
\* A second run of main over the same results root, in the working directory
\* the first run left.  os.listdir and glob.glob return the entries of a
\* directory in arbitrary order, and the code does not sort them: the second
\* run is given the same entries in the order of the first run or in the
\* reverse order, for the root and for the geography directories.
\* ---------------------------------------------------------------------------

Reverse(s) == [i \in 1..Len(s) |-> s[Len(s) + 1 - i]]

\* the root with the same entries, listed again
Relistings(root) ==
    { [ kind    |-> root.kind,
        entries |-> [i \in 1..Len(es) |->
                        [ name    |-> es[i].name,
                          isdir   |-> es[i].isdir,
                          entries |-> IF inner THEN Reverse(es[i].entries)
                                      ELSE es[i].entries ]] ]
      : es \in {root.entries, Reverse(root.entries)}, inner \in BOOLEAN }

\* the sources of a geography of these roots: for the anachronistic
\* category none, one, or two matching directories with different tables
TwiceGeoSpecs ==
    { GeoSpec(<<StatOk(1000)>>, <<StatOk(5)>>, m, SimpleMeta, SimpleMeta)
      : m \in { <<>>,
                <<MetaOk(<<"a", "b">>, MaxRows)>>,
                <<MetaOk(<<"a">>, 1), MetaOk(<<"a", "b">>, MaxRows)>> } }

TwiceRoots(n) ==
    { MkRoot([i \in 1..n |-> GeoNames[i]], specs, FALSE)
      : specs \in SeqsOf(TwiceGeoSpecs, n) }

InitTwice ==
    /\ \/ fs \in NoRoots
       \/ \E n \in 1..MaxGeos : fs \in TwiceRoots(n)
    /\ InitEnv
    /\ InitRun

\* main is started again after the first run ended
Rerun ==
    /\ pc \in {"done", "exit"}
    /\ earlier = None
    /\ earlier' = Some([listing |-> fs, arrow |-> cwd.arrow])
    /\ fs' \in Relistings(fs)
    /\ pc' = "start"
    /\ outcome' = None
    /\ message_result' = None
    /\ tree_result' = None
    /\ stats_result' = None
    /\ meta_result' = None
    /\ meta' = NoCall
    /\ UNCHANGED <<ragged, cwd, temp_dirs, pieces, cleaned>>

NextTwice ==
    \/ Next
    \/ Rerun

SpecTwice == InitTwice /\ [][NextTwice]_vars

\* ---------------------------------------------------------------------------
\* Roots whose names glob reads in its own way, and a working directory
\* that holds a directory called None.
\* ---------------------------------------------------------------------------

\* the listings of these roots are the first directories of one of these
EdgeOrders ==
    { <<<<"C", "*">>, <<"C", "x">>, PfxGISAID \o <<"A", "[", "1", "]">>, PfxGISAID \o <<"A", "1">>>>,
      <<<<"C", "x">>, <<"C", "*">>, PfxGISAID \o <<"A", "1">>, PfxGISAID \o <<"A", "[", "1", "]">>>>,
      <<PfxGISAID \o <<"A", "[", "1", "]">>, PfxGISAID \o <<"A", "1">>, <<"C", "*">>, <<"C", "x">>>>,
      <<PfxGISAID \o <<"A", "1">>, PfxGISAID \o <<"A", "[", "1", "]">>, <<"C", "x">>, <<"C", "*">>>>,
      <<<<"[", "b", "-", "a", "!", "c", "]">>, <<"x">>, <<"c">>, <<"!">>>>,
      <<<<"C">>, <<"D">>, NameGisaidA, NameLocalB>> }

\* the entries with a dot put before the name of the first entry of each
\* category (hide = "first") or of every entry (hide = "all")
HideEntries(entries, hide) ==
    [k \in 1..Len(entries) |->
        IF hide = "all" \/ (hide = "first" /\ entries[k].name.stem = <<"1">>)
        THEN [entries[k] EXCEPT !.name.stem = <<".">> \o @]
        ELSE entries[k]]

\* a geography directory: its sources and which of their names are hidden
EdgeGeoSpecs ==
    { [spec |-> GeoSpec(<<StatOk(1000)>>, <<StatOk(5)>>, SimpleMeta, SimpleMeta, SimpleMeta),
       hide |-> "none"],
      [spec |-> GeoSpec(<<StatOk(1000)>>, <<StatOk(5)>>, SimpleMeta, SimpleMeta, SimpleMeta),
       hide |-> "all"],
      [spec |-> GeoSpec(<<>>, <<>>, <<>>, <<>>, <<>>), hide |-> "none"],
      [spec |-> GeoSpec(<<StatOk(1000)>>, <<StatOk(5)>>, SimpleMeta, SimpleMeta,
                        <<MetaOk(<<"a", "Geography">>, 1)>>),
       hide |-> "none"],
      [spec |-> GeoSpec(<<StatOk(49), StatOk(1000)>>, <<StatOk(1), StatOk(5)>>,
                        <<MetaOk(<<"a", "b">>, 1), MetaOk(<<"a">>, 1)>>,
                        <<MetaNoFile, MetaOk(<<"a">>, 1)>>,
                        <<MetaOk(<<"b">>, MaxRows), MetaOk(<<"a">>, 1)>>),
       hide |-> "first"] }

EdgeRoots(n) ==
    { [ kind    |-> "dir",
        entries |-> [i \in 1..n |->
                        [name    |-> order[i], isdir |-> TRUE,
                         entries |-> HideEntries(GeoEntries(i, specs[i].spec),
                                                 specs[i].hide)]] ]
      : order \in EdgeOrders, specs \in SeqsOf(EdgeGeoSpecs, n) }

InitEdge ==
    /\ \E n \in 1..MaxGeos : fs \in EdgeRoots(n)
    /\ ragged \in {"raise", "truncate"}
    /\ cwd \in { [xlsx |-> None, arrow |-> [f \in OutputNames |-> None],
                  none_dir |-> d]
                : d \in {None,
                         Some([f \in {FileAnachron, FileHighdist, FileDouble} |->
                                  MetaTable(0, <<"a">>, 1)])} }
    /\ InitRun

SpecEdge == InitEdge /\ [][Next]_vars

\* _clean_string on its own, for every name of up to MaxPieces pieces
InitClean ==
    /\ \E n \in 1..MaxPieces : pieces \in SeqsOf(NamePieces, n)
    /\ cleaned = None
    /\ pc = "clean"
    /\ fs = [kind |-> "missing", entries |-> <<>>]
    /\ ragged = "raise"
    /\ cwd = [xlsx |-> None, arrow |-> [f \in OutputNames |-> None],
              none_dir |-> None]
    /\ outcome = None
    /\ message_result = None
    /\ tree_result = None
    /\ stats_result = None
    /\ meta_result = None
    /\ meta = NoCall
    /\ temp_dirs = {}
    /\ earlier = None

CallCleanString ==
    /\ pc = "clean"
    /\ cleaned' = Some(_clean_string(Concat(pieces, 1)))
    /\ pc' = "cleaned"
    /\ UNCHANGED <<earlier, fs, ragged, cwd, outcome, message_result, tree_result,
                   stats_result, meta_result, meta, temp_dirs, pieces>>

NextClean == CallCleanString

SpecClean == InitClean /\ [][NextClean]_vars

\* ---------------------------------------------------------------------------
\* Properties.
\* ---------------------------------------------------------------------------

\* the search tree main holds and the rows of the statistics table
Tree == tree_result[1].value
Rows == stats_result[1].value

StatsReturned   == stats_result # None
StatsReturnedOk == stats_result # None /\ stats_result[1].kind = "Ok"

\* the count, prevalence and rate cells of each candidate category of a row
CategoryCells(row) ==
    << [count |-> row.DoubleCount,   prev |-> row.DoublePrev,   rate |-> row.DoubleRate],
       [count |-> row.AnachronCount, prev |-> row.AnachronPrev, rate |-> row.AnachronRate],
       [count |-> row.HighdistCount, prev |-> row.HighdistPrev, rate |-> row.HighdistRate] >>

AllDerivedNull(row) ==
    \A c \in 1..3 : CategoryCells(row)[c].prev = FNull /\ CategoryCells(row)[c].rate = None

\* the readers stats_pipeline calls for a branch, with the path each is given
BranchReads(branch) ==
    << [path |-> branch.early_stats, read |-> _get_early_count(fs, branch.early_stats)],
       [path |-> branch.late_stats,  read |-> _get_late_count(fs, branch.late_stats)],
       [path |-> branch.anachron,    read |-> _summarize_anachrons(fs, branch.anachron)],
       [path |-> branch.highdist,    read |-> _summarize_highdist(fs, branch.highdist)] >>

\* the cells of a row the four readers fill, in the same order
ReadCells(row) == <<row.Input, row.DoubleCount, row.AnachronCount, row.HighdistCount>>

\* C1: a geography whose Input Sequence Count is 0 gets null in each of its
\* prevalence and rate columns, whatever its candidate counts are; no
\* prevalence is infinity or NaN and no rate string is built from one.
C1_ZeroInputGivesNull ==
    StatsReturnedOk =>
        \A i \in 1..Len(Rows) : Rows[i].Input = Some(0) => AllDerivedNull(Rows[i])

\* C2: a category whose count is 0 while the input count is positive has
\* prevalence exactly 0.0, and its rate never carries the result of the
\* division by zero.
C2_ZeroCountGivesZeroAndNoInfinity ==
    StatsReturnedOk =>
        \A i \in 1..Len(Rows), c \in 1..3 :
            ( /\ Rows[i].Input # None
              /\ Rows[i].Input[1] > 0
              /\ CategoryCells(Rows[i])[c].count = Some(0) )
            => /\ CategoryCells(Rows[i])[c].prev = FZero
               /\ CategoryCells(Rows[i])[c].rate # Some("1 in inf")

\* C3: a source of one geography that cannot be read does not abort the
\* table: stats_pipeline still returns Ok, the cell of that source is null,
\* and the Err is kept for a table without rows.
C3_FaultySourceLeavesNull ==
    (StatsReturned /\ Len(Tree) > 0) =>
        /\ stats_result[1].kind = "Ok"
        /\ \A i \in 1..Len(Tree), r \in 1..4 :
               BranchReads(Tree[i].val)[r].read.kind = "Raised"
               => ReadCells(Rows[i])[r] = None

\* C4: a geography without an early_stats file has a null Input Sequence
\* Count and null in its three prevalence and three rate columns, whatever
\* its candidate counts are; the absence is not an error: an exception
\* comes only from a source that is present, and the Err only from a tree
\* without geographies.
C4_AbsentEarlyStatsGivesNull ==
    StatsReturned =>
        /\ stats_result[1].kind = "Ok" =>
               \A i \in 1..Len(Tree) :
                   Tree[i].val.early_stats = None
                   => Rows[i].Input = None /\ AllDerivedNull(Rows[i])
        /\ stats_result[1].kind = "Raised" =>
               \E i \in 1..Len(Tree), r \in 1..4 :
                   /\ BranchReads(Tree[i].val)[r].path # None
                   /\ BranchReads(Tree[i].val)[r].read.kind = "Raised"
        /\ stats_result[1].kind = "Err" => Len(Tree) = 0

\* a table was returned for a geography without early_stats whose late
\* count and anachronistic count are there
C4_Witness ==
    /\ StatsReturnedOk
    /\ \E i \in 1..Len(Tree) :
           /\ Tree[i].val.early_stats = None
           /\ Rows[i].DoubleCount # None
           /\ Rows[i].DoubleCount[1] > 0
           /\ Rows[i].AnachronCount # None

\* the branch holds all five artifacts / holds early_stats and nothing else
HasAllFive(branch) ==
    /\ branch.double # None
    /\ branch.anachron # None
    /\ branch.highdist # None
    /\ branch.early_stats # None
    /\ branch.late_stats # None

HasOnlyEarlyStats(branch) ==
    /\ branch.double = None
    /\ branch.anachron = None
    /\ branch.highdist = None
    /\ branch.early_stats # None
    /\ branch.late_stats = None

FirstCellIsNumber(path) ==
    /\ NodeAt(fs, path[1]).table.rows # <<>>
    /\ \E j \in 1..Len(NodeAt(fs, path[1]).table.header) :
           /\ NodeAt(fs, path[1]).table.header[j] = "num_seqs"
           /\ NodeAt(fs, path[1]).table.rows[1][j] # None

C6_RateIsIntegerFloor ==
    StatsReturnedOk =>
        \A i \in 1..Len(Rows), c \in 1..3 :
            ( /\ Rows[i].Input # None
              /\ Rows[i].Input[1] > 0
              /\ CategoryCells(Rows[i])[c].count # None
              /\ CategoryCells(Rows[i])[c].count[1] > 0 )
            => CategoryCells(Rows[i])[c].rate =
                   Some("1 in " \o ToString(Rows[i].Input[1]
                                            \div CategoryCells(Rows[i])[c].count[1]))

\* the geography of the branch has a directory of the category and the
\* expected file is in it
HasSource(branch, cat) ==
    /\ BranchAttr(branch, cat) # None
    /\ NodeAt(fs, BranchAttr(branch, cat)[1]).type = "dir"
    /\ MetaFile(cat) \in DOMAIN NodeAt(fs, BranchAttr(branch, cat)[1]).files

\* no geography of the search tree holds the metadata file of the category
ZeroContributors(cat) ==
    \A i \in 1..Len(Tree) : ~HasSource(Tree[i].val, cat)

\* C7: a category without a contributing geography is not an error:
\* compile_metadata returns Ok, and no table is written or reported for
\* the category.
C7_NoContributorsIsNotAnError ==
    (meta_result # None /\ meta.pending = None) =>
        \A c \in 1..Len(Categories) :
            ZeroContributors(Categories[c])
            => /\ meta_result[1].kind = "Ok"
               /\ cwd.arrow[MetaOutput(Categories[c])] = None

\* the metadata table of category cat in the geography of the branch
SourceTable(branch, cat) ==
    NodeAt(fs, BranchAttr(branch, cat)[1]).files[MetaFile(cat)]

\* a row of a contributor under the columns header, matched by name: its
\* own value where it has the column, the geography under Geography, null
\* where it lacks the column
ByNameRow(header, table, row, geo) ==
    [j \in 1..Len(header) |->
        IF header[j] = ColGeography THEN geo
        ELSE IF \E k \in 1..Len(table.header) : table.header[k] = header[j]
        THEN row[ColumnIndex(table.header, header[j])]
        ELSE NullField]

RECURSIVE ByNameRows(_, _, _)
\* the rows of the contributors from geography i on, matched by name
ByNameRows(header, cat, i) ==
    IF i > Len(Tree) THEN <<>>
    ELSE (IF HasSource(Tree[i].val, cat)
          THEN [k \in 1..Len(SourceTable(Tree[i].val, cat).rows) |->
                   ByNameRow(header, SourceTable(Tree[i].val, cat),
                             SourceTable(Tree[i].val, cat).rows[k], Tree[i].key)]
          ELSE <<>>)
         \o ByNameRows(header, cat, i + 1)

\* the first geography of the tree that contributes to the category
FirstContributor(cat) ==
    CHOOSE i \in 1..Len(Tree) :
        /\ HasSource(Tree[i].val, cat)
        /\ \A j \in 1..(i - 1) : ~HasSource(Tree[j].val, cat)

\* C8: the columns of a category's table are those of its first contributor
\* and Geography; the values of each later contributor sit under the
\* columns of the same name, with null for a column it lacks and without
\* the columns only it has.
C8_ValuesAlignedByName ==
    \A c \in 1..Len(Categories) :
        ( /\ pc = "meta_exit"
          /\ meta.cat = c
          /\ meta.ticker > 0
          /\ meta.pending = None )
        => cwd.arrow[MetaOutput(Categories[c])] =
               Some([ header |-> SourceTable(Tree[FirstContributor(Categories[c])].val,
                                             Categories[c]).header \o <<ColGeography>>,
                      rows   |-> ByNameRows(
                                    SourceTable(Tree[FirstContributor(Categories[c])].val,
                                                Categories[c]).header \o <<ColGeography>>,
                                    Categories[c], 1) ])

\* the name given to _clean_string
Name == Concat(pieces, 1)

Prefixes == {PfxLocalDataset, PfxGISAID, PfxGenBank}

Contains(s, old) == \E i \in 1..Len(s) : OccursAt(s, old, i)

\* the position of the leftmost occurrence of old in s, 0 without one
FirstOccurrence(s, old) ==
    IF Contains(s, old)
    THEN CHOOSE i \in 1..Len(s) :
            OccursAt(s, old, i) /\ \A j \in 1..(i - 1) : ~OccursAt(s, old, j)
    ELSE 0

RECURSIVE Without(_, _)
\* s without the occurrences of old, found one after the other from the left
Without(s, old) ==
    IF FirstOccurrence(s, old) = 0 THEN s
    ELSE SubSeq(s, 1, FirstOccurrence(s, old) - 1)
         \o Without(SubSeq(s, FirstOccurrence(s, old) + Len(old), Len(s)), old)

\* s with a space in the place of each underscore
UnderscoresToSpaces(s) == [j \in 1..Len(s) |-> IF s[j] = "_" THEN " " ELSE s[j]]

\* s without the leftmost occurrence of old
WithoutFirst(s, old) ==
    IF FirstOccurrence(s, old) = 0 THEN s
    ELSE SubSeq(s, 1, FirstOccurrence(s, old) - 1)
         \o SubSeq(s, FirstOccurrence(s, old) + Len(old), Len(s))

\* C9: a name that contains one of the prefixes comes back as the ordered
\* rewrite of the name: the first occurrence of LocalDataset_ removed, then
\* the first occurrence of GISAID_, then the first occurrence of GenBank_,
\* then a space for every underscore; no case change, no trimming, and the
\* result holds no underscore.
C9_PrefixRemovedOnce ==
    (cleaned # None /\ \E old \in Prefixes : Contains(Name, old)) =>
        /\ cleaned[1] = UnderscoresToSpaces(
               WithoutFirst(WithoutFirst(WithoutFirst(Name, PfxLocalDataset),
                                         PfxGISAID), PfxGenBank))
        /\ \A j \in 1..Len(cleaned[1]) : cleaned[1][j] # "_"

\* What _clean_string returns for C9's names: the name without the
\* occurrences of LocalDataset_, then without those of GISAID_ in what is
\* left, then without those of GenBank_ in what is left of that, and with
\* a space for each underscore that remains; nothing else changes, and the
\* result holds no underscore.
C9_AllPrefixesRemoved ==
    (cleaned # None /\ \E old \in Prefixes : Contains(Name, old)) =>
        /\ cleaned[1] = UnderscoresToSpaces(
               Without(Without(Without(Name, PfxLocalDataset), PfxGISAID), PfxGenBank))
        /\ \A j \in 1..Len(cleaned[1]) : cleaned[1][j] # "_"

\* GISAID_North_America was cleaned to North America
C9_Witness ==
    /\ cleaned # None
    /\ Len(pieces) = 2
    /\ pieces[1] = PfxGISAID
    /\ Name = PfxGISAID \o <<"N", "o", "r", "t", "h", "_", "A", "m", "e", "r", "i", "c", "a">>
    /\ cleaned[1] = <<"N", "o", "r", "t", "h", " ", "A", "m", "e", "r", "i", "c", "a">>

\* the places in the listing of the root that hold a directory
DirPlaces == {i \in 1..Len(fs.entries) : fs.entries[i].isdir}

\* C10: construct_file_paths returns the Err exactly when the root holds
\* no subdirectory; otherwise geo and path have one element per
\* subdirectory, in the order of the listing, path[i] the directory and
\* geo[i] its cleaned name, and nothing for a plain file.
C10_OnePairPerSubdirectory ==
    message_result # None =>
        IF DirPlaces = {}
        THEN message_result[1] = Err(MsgNoSubdirs)
        ELSE /\ message_result[1].kind = "Ok"
             /\ Len(message_result[1].value.geo) = Cardinality(DirPlaces)
             /\ Len(message_result[1].value.path) = Cardinality(DirPlaces)
             /\ \A i \in DirPlaces :
                    LET k == Cardinality({j \in DirPlaces : j <= i})
                    IN  /\ message_result[1].value.path[k] = <<fs.entries[i].name>>
                        /\ message_result[1].value.geo[k]
                               = _clean_string(fs.entries[i].name)

\* pairs were returned for a root that lists a plain file among two directories
C10_Witness ==
    /\ message_result # None
    /\ message_result[1].kind = "Ok"
    /\ Cardinality(DirPlaces) = 2
    /\ \E i \in 1..Len(fs.entries) : ~fs.entries[i].isdir
    /\ Len(message_result[1].value.path) = 2

\* the listing of the directory a branch was built from
BranchListing(branch) == RootEntry(fs, branch.parent_dir[1]).entries

\* the places of that listing whose entry ends with the suffix
SuffixPlaces(branch, suffix) ==
    {k \in 1..Len(BranchListing(branch)) : BranchListing(branch)[k].name.suffix = suffix}

\* the field is None without such an entry and the path of the first of
\* them in the listing otherwise
FieldIsFirstListed(branch, field, suffix) ==
    IF SuffixPlaces(branch, suffix) = {} THEN field = None
    ELSE \E k \in SuffixPlaces(branch, suffix) :
            /\ \A j \in SuffixPlaces(branch, suffix) : k <= j
            /\ field = Some(branch.parent_dir \o <<BranchListing(branch)[k].name>>)

\* C11: define_search_tree returns Ok whatever is missing; each of the five
\* fields of each branch is None exactly when no entry of the geography's
\* directory ends with the suffix of the category, and otherwise the one
\* path of the first such entry in the order of the listing.
C11_FirstMatchOrNone ==
    tree_result # None =>
        /\ tree_result[1].kind = "Ok"
        /\ \A i \in 1..Len(Tree) :
               /\ FieldIsFirstListed(Tree[i].val, Tree[i].val.double, SfxDouble)
               /\ FieldIsFirstListed(Tree[i].val, Tree[i].val.anachron, SfxAnachron)
               /\ FieldIsFirstListed(Tree[i].val, Tree[i].val.highdist, SfxHighdist)
               /\ FieldIsFirstListed(Tree[i].val, Tree[i].val.early_stats, SfxEarly)
               /\ FieldIsFirstListed(Tree[i].val, Tree[i].val.late_stats, SfxLate)

\* a tree was built with a branch whose directory lists two entries for
\* each category and a branch without any artifact
C11_Witness ==
    /\ tree_result # None
    /\ \E i \in 1..Len(Tree), j \in 1..Len(Tree) :
           /\ \A sfx \in {SfxDouble, SfxAnachron, SfxHighdist, SfxEarly, SfxLate} :
                  Cardinality(SuffixPlaces(Tree[i].val, sfx)) = 2
           /\ Tree[i].val.early_stats # None
           /\ Tree[j].val.early_stats = None
           /\ Tree[j].val.double = None
           /\ Tree[j].val.anachron = None
           /\ Tree[j].val.highdist = None
           /\ Tree[j].val.late_stats = None

\* a root that cannot be read: nothing exists at the path
MissingRoot == [kind |-> "missing", entries |-> <<>>]

\* the table of the expected file in the directory a branch field names
ExpectedFileRows(dir, filename) == NodeAt(fs, dir[1]).files[filename].rows

\* C12: each of the four readers returns None for None, whatever the file
\* system holds, and never 0; the anachronistic and the high-distance
\* reader return 0 for a file with a header and no data row; so a count of
\* the table is null exactly when the path of its branch is None.
C12_NoneInNoneOut ==
    /\ _get_early_count(MissingRoot, None) = Returned(None)
    /\ _get_late_count(MissingRoot, None) = Returned(None)
    /\ _summarize_anachrons(MissingRoot, None) = Returned(None)
    /\ _summarize_highdist(MissingRoot, None) = Returned(None)
    /\ StatsReturnedOk =>
           \A i \in 1..Len(Tree) :
               /\ \A r \in 1..4 :
                      ReadCells(Rows[i])[r] = None
                      <=> BranchReads(Tree[i].val)[r].path = None
               /\ ( /\ Tree[i].val.anachron # None
                    /\ ExpectedFileRows(Tree[i].val.anachron, FileAnachron) = <<>> )
                  => Rows[i].AnachronCount = Some(0)
               /\ ( /\ Tree[i].val.highdist # None
                    /\ ExpectedFileRows(Tree[i].val.highdist, FileHighdist) = <<>> )
                  => Rows[i].HighdistCount = Some(0)

\* a table was returned with a row whose anachronistic file has no data
\* row (count 0), whose high-distance directory is absent (count null) and
\* whose early_stats is absent while late_stats is there
C12_Witness ==
    /\ StatsReturnedOk
    /\ \E i \in 1..Len(Tree) :
           /\ Tree[i].val.anachron # None
           /\ Rows[i].AnachronCount = Some(0)
           /\ Tree[i].val.highdist = None
           /\ Rows[i].HighdistCount = None
           /\ Tree[i].val.early_stats = None
           /\ Rows[i].Input = None
           /\ Rows[i].DoubleCount # None

\* the run ended with a non-zero exit in the phase, and nothing of a later
\* phase is there
ExitedIn(phase) ==
    /\ pc = "exit"
    /\ outcome # None
    /\ outcome[1].code # 0
    /\ outcome[1].phase = phase

\* neither the spreadsheet nor a consolidated metadata file was written, and
\* the metadata compilation did not begin
NothingWritten ==
    /\ cwd.xlsx = None
    /\ meta = NoCall
    /\ meta_result = None
    /\ temp_dirs = {}
    /\ \A f \in OutputNames : cwd.arrow[f] \in {None, Some(StaleTable)}

\* C13: main runs path construction, tree search, statistics, spreadsheet
\* write and metadata compilation in this order, each only after the one
\* before it succeeded; a results root that is missing or not a directory,
\* a root without subdirectory and a statistics table without rows (the
\* Err of stats_pipeline for an empty tree) each end the run with a
\* non-zero exit in their phase, before any later phase and before any
\* output is written.
C13_PhasesInOrderAndFatalStops ==
    /\ tree_result # None => message_result # None /\ message_result[1].kind = "Ok"
    /\ stats_result # None => tree_result # None /\ tree_result[1].kind = "Ok"
    /\ cwd.xlsx # None => StatsReturnedOk
    /\ meta # NoCall => cwd.xlsx # None
    /\ meta_result # None => meta # NoCall
    /\ (\E f \in OutputNames : cwd.arrow[f] \notin {None, Some(StaleTable)})
           => meta # NoCall
    /\ (fs.kind # "dir" /\ pc # "start")
           => ExitedIn("start") /\ message_result = None /\ tree_result = None
              /\ stats_result = None /\ NothingWritten
    /\ (fs.kind = "dir" /\ DirPlaces = {} /\ pc \notin {"start", "paths"})
           => ExitedIn("paths") /\ message_result = Some(Err(MsgNoSubdirs))
              /\ tree_result = None /\ stats_result = None /\ NothingWritten
    /\ stats_pipeline(fs, <<>>) = Err(MsgNoResults)
    /\ (stats_result # None /\ stats_result[1].kind = "Err")
           => ExitedIn("stats") /\ NothingWritten

\* the run ended in the path construction for a root that holds a plain
\* file and no directory
C13_Witness ==
    /\ fs.kind = "dir"
    /\ Len(fs.entries) = 1
    /\ DirPlaces = {}
    /\ ExitedIn("paths")
    /\ outcome[1].by = "sys.exit"

\* C14: a second run of the pipeline over the unchanged results root leaves
\* the same consolidated metadata file for each category as the first run
\* did, also with two entries of a geography directory matching a suffix
\* and with the files of the first run in place.
C14_SecondRunSameOutputs ==
    (earlier # None /\ pc \in {"done", "exit"}) =>
        \A f \in OutputNames : cwd.arrow[f] = earlier[1].arrow[f]

\* a second run that is given the listings of the first run leaves the
\* files of the first run: only the order of a listing tells the runs apart
SameListingSameOutputs ==
    (earlier # None /\ pc \in {"done", "exit"} /\ earlier[1].listing = fs) =>
        \A f \in OutputNames : cwd.arrow[f] = earlier[1].arrow[f]

\* the loop of _search_tree_meta has ended and the staging file is still there
LoopEnded ==
    /\ pc \in {"meta_loop", "meta_exit"}
    /\ meta.idx > Len(Tree)

\* the category of the call in progress
CallCategory == Categories[meta.cat]

IsContributor(i) == HasSource(Tree[i].val, CallCategory)

RECURSIVE RowsBefore(_)
\* the data rows of the contributors before geography i of the tree
RowsBefore(i) ==
    IF i <= 1 THEN 0
    ELSE RowsBefore(i - 1)
         + (IF IsContributor(i - 1)
            THEN Len(SourceTable(Tree[i - 1].val, CallCategory).rows) ELSE 0)

\* the header of a source with Geography, and row k of the source with the
\* name of the geography under Geography
TaggedHeader(table) ==
    IF \E j \in 1..Len(table.header) : table.header[j] = ColGeography
    THEN table.header
    ELSE table.header \o <<ColGeography>>

TaggedRow(table, k, geo) ==
    IF \E j \in 1..Len(table.header) : table.header[j] = ColGeography
    THEN [j \in 1..Len(table.header) |->
            IF table.header[j] = ColGeography THEN geo ELSE table.rows[k][j]]
    ELSE table.rows[k] \o <<geo>>

\* C15: when the loop of _search_tree_meta ends, the staging file holds one
\* header line, that of the first contributing geography in tree order
\* with Geography, and after it the data rows of the contributors in tree
\* order, each with the clean name of its geography; a geography without
\* the directory or without the file adds nothing, so the data rows are as
\* many as the contributors' rows together.
C15_StagingIsHeaderThenRows ==
    LoopEnded =>
        IF ZeroContributors(CallCategory)
        THEN meta.ticker = 0 /\ meta.staging = None
        ELSE /\ meta.ticker = Cardinality({i \in 1..Len(Tree) : IsContributor(i)})
             /\ meta.staging # None
             /\ Len(meta.staging[1]) = 1 + RowsBefore(Len(Tree) + 1)
             /\ meta.staging[1][1] =
                    TaggedHeader(SourceTable(Tree[FirstContributor(CallCategory)].val,
                                             CallCategory))
             /\ \A i \in 1..Len(Tree) :
                    IsContributor(i) =>
                        \A k \in 1..Len(SourceTable(Tree[i].val, CallCategory).rows) :
                            meta.staging[1][1 + RowsBefore(i) + k] =
                                TaggedRow(SourceTable(Tree[i].val, CallCategory), k,
                                          Tree[i].key)

\* the loop ended after two geographies contributed rows under different
\* headers
C15_Witness ==
    /\ LoopEnded
    /\ meta.ticker = 2
    /\ Len(Tree) = 2
    /\ SourceTable(Tree[1].val, CallCategory).header
           # SourceTable(Tree[2].val, CallCategory).header
    /\ SourceTable(Tree[1].val, CallCategory).rows # <<>>
    /\ SourceTable(Tree[2].val, CallCategory).rows # <<>>
    /\ Len(meta.staging[1]) = 1 + 2 * MaxRows

\* ---------------------------------------------------------------------------
\* C16: each call of _search_tree_meta has a staging directory of its own,
\* one that no earlier call used; the directory exists exactly while the
\* call is inside its with statement, so that after every way out of the
\* call (return after a sink, return with no contributor, exception while a
\* source is read or the staging file is sunk) it is gone; and never do two
\* staging directories exist together.
InsideWith == pc \in {"meta_loop", "meta_exit"}

C16_StagingDirectoryScoped ==
    /\ Cardinality(temp_dirs) <= 1
    /\ InsideWith => temp_dirs = {meta.dir} /\ meta.dir = meta.cat
    /\ ~InsideWith => temp_dirs = {}

\* a call was left by the exception of a source without any line, its
\* staging file already created, and the directory is gone
C16_Witness ==
    /\ pc = "exit"
    /\ meta_result = Some(Raised("NoDataError"))
    /\ meta.ticker > 0
    /\ meta.dir > 0
    /\ temp_dirs = {}

\* ---------------------------------------------------------------------------
\* the clean names of the directories of the root's listing, by place
CleanNames == [i \in DirPlaces |-> _clean_string(fs.entries[i].name)]

\* the directories whose clean name no directory listed before them has,
\* and for a directory the last one listed with its clean name
FirstPlaces(clean) ==
    {i \in DOMAIN clean : \A j \in DOMAIN clean : j < i => clean[j] # clean[i]}

LastPlaceOf(clean, i) ==
    CHOOSE l \in DOMAIN clean :
        /\ clean[l] = clean[i]
        /\ \A j \in DOMAIN clean : clean[j] = clean[i] => j <= l

\* C17: define_search_tree returns Ok with a tree whose keys are all
\* different: one key per distinct clean name, in the order in which the
\* names first appear in the listing, each with the branch of the LAST
\* directory listed under that name.  With two directories of one clean
\* name the tree, and the statistics table when there is one, have fewer
\* entries than there are directories, and nothing reports it.
C17_OneBranchPerCleanName ==
    tree_result # None =>
        \A clean \in {CleanNames} : \A first \in {FirstPlaces(clean)} :
            /\ tree_result[1].kind = "Ok"
            /\ \A i, j \in 1..Len(Tree) : Tree[i].key = Tree[j].key => i = j
            /\ Len(Tree) = Cardinality(first)
            /\ \A i \in first :
                   LET k == Cardinality({j \in first : j <= i})
                   IN  /\ Tree[k].key = clean[i]
                       /\ Tree[k].val.geography = clean[i]
                       /\ Tree[k].val.parent_dir
                              = <<fs.entries[LastPlaceOf(clean, i)].name>>
            /\ Cardinality(first) < Cardinality(DirPlaces)
                   => Len(Tree) < Cardinality(DirPlaces)
            /\ StatsReturnedOk =>
                   /\ Len(Rows) = Len(Tree)
                   /\ \A k \in 1..Len(Rows) : Rows[k].Geography = Tree[k].key
                   /\ Cardinality(first) < Cardinality(DirPlaces)
                          => Len(Rows) < Cardinality(DirPlaces)

\* two directories of one clean name gave a tree of one branch, that of the
\* directory listed second, and a statistics table of one row
C17_Witness ==
    /\ StatsReturnedOk
    /\ Cardinality(DirPlaces) = 2
    /\ fs.entries[1].name = NameGisaidA
    /\ fs.entries[2].name = NameGenBankA
    /\ Len(Tree) = 1
    /\ Tree[1].val.parent_dir = <<NameGenBankA>>
    /\ Len(Rows) = 1

====
